---- MODULE Spec2Model ----
(***************************************************************************)
(* YomiGami: a first-order HMM for Japanese readings.                      *)
(*   src/yomigami.py  viterbi(model, observations, mecab_readings) and the *)
(*                    interactive loop that calls it once per sentence     *)
(*   src/train.py     the counting pass and the normalisation pass         *)
(*                                                                         *)
(* Representation of numbers.  A probability stored in a loaded model is   *)
(* a power of two, 2^(-k), and is represented by its exponent k >= 0;      *)
(* math.log is Log(k) = -k (in units of ln 2), so that the sums of         *)
(* logarithms the decoder compares are exact integers.  The floor 1e-10    *)
(* is the exponent FLOOR (2^(-33) = 1.16e-10).  The trainer's              *)
(* probabilities are exact fractions <<numerator, denominator>>.           *)
(*                                                                         *)
(* Two programs, two specifications.  Spec is yomigami.py: a model file is *)
(* loaded (any of the tables a JSON file can hold, within Models) and      *)
(* sentences are decoded one after the other.  SpecTrain is train.py: a    *)
(* corpus is loaded, counted, normalised and saved.                        *)
(***************************************************************************)
EXTENDS Integers, Sequences, FiniteSets, TLC

\* ------------------------------------------------------------------ strings
DEFAULT == "__DEFAULT__"
NO_HINT == "*"
PLACEHOLDER == "?"
NEG_INF == "-inf"

Readings == {"a", "b"}
Surfaces == {"x", "y"}
Hints == {NO_HINT, "b"}

\* Python's str comparison on the strings a hidden state can be
StrRank(s) ==
    CASE s = "a" -> 1
      [] s = "b" -> 2
      [] s = "x" -> 3
      [] s = "y" -> 4

\* ------------------------------------------------------------------- bounds
MaxT == 2

\* -------------------------------------------------------------- dictionaries
EmptyDict == <<>>

\* dict.get(k, dflt): a lookup that never inserts
Get(d, k, dflt) == IF k \in DOMAIN d THEN d[k] ELSE dflt

Keys(d) == DOMAIN d

PartialFns(K, Vals) == UNION {[D -> Vals] : D \in SUBSET K}

\* ------------------------------------------------------------------ numbers
FLOOR == 33

Log(p) == 0 - p

\* a comparison that lets the smaller state win a tie of scores
TupleLessTieReversed(p, q) ==
    \/ p[1] < q[1]
    \/ p[1] = q[1] /\ StrRank(p[2]) > StrRank(q[2])

\* (score, state) tuples compared as Python compares tuples
TupleLess(p, q) ==
    \/ p[1] < q[1]
    \/ p[1] = q[1] /\ StrRank(p[2]) < StrRank(q[2])

MaxTuple(S) == CHOOSE p \in S : \A q \in S : q = p \/ TupleLess(q, p)

\* --------------------------------------------------------------------- state
VARIABLES
    \* yomigami.py
    model,               \* the dictionary json.load returned
    loaded,              \* history: the content of the model file
    observations,        \* the surfaces of the current sentence
    mecab_readings,      \* the tokenizer's hints, "*" for none
    pc,                  \* position in main's loop and in viterbi
    t,                   \* loop index of the recursion and of the backtrace
    V,                   \* V[t][y]: best log-probability of a path ending in y at t
    path,                \* path.lists[y] = [y] (t = 0), path.steps[t][y] = backpointer
    best_path_sequence,
    log_probs_sequence,
    current_state,
    result,              \* what viterbi returned
    \* train.py
    corpus,              \* the list of sentences json.load returned
    tpc,                 \* position in train.py's main
    sentence_idx,        \* index of the sentence the outer loop is at
    pair_idx,            \* index of the pair the inner loop is at
    prev_reading,
    emission_counts,
    transition_counts,
    prior_counts,
    reading_vocabulary,
    priors,
    transitions,
    emissions,
    model_file           \* the content of yomigami_model.json, "absent" before

decoderVars == <<model, loaded, observations, mecab_readings, pc, t, V, path,
                 best_path_sequence, log_probs_sequence, current_state, result>>

trainerVars == <<corpus, tpc, sentence_idx, pair_idx, prev_reading, emission_counts,
                 transition_counts, prior_counts, reading_vocabulary, priors,
                 transitions, emissions, model_file>>

vars == <<decoderVars, trainerVars>>

\* ----------------------------------------------------- the models json.load
\* can return: three tables, any key of which may be missing
PriorTables ==
    {EmptyDict, ("a" :> 1)} \cup
    {c @@ (DEFAULT :> 3) : c \in {("b" :> 1), ("a" :> 2 @@ "b" :> 1)}}

\* a context always carries its own __DEFAULT__ (train.py line 45)
Contexts ==
    {c @@ (DEFAULT :> 3) :
        c \in {EmptyDict, ("a" :> 1), ("a" :> 2 @@ "b" :> 1)}}

TransitionTables == PartialFns(Readings, Contexts)

\* an entry may be the empty mapping
EmissionDists ==
    {EmptyDict, ("a" :> 1), ("a" :> 1 @@ "b" :> 1)}

EmissionTables == PartialFns(Surfaces, EmissionDists)

Models ==
    [priors : PriorTables, transitions : TransitionTables, emissions : EmissionTables]

\* ------------------------------------------------------------------ viterbi
\* the model after emit_p.setdefault(obs, {}): a miss inserts an empty entry
AfterSetDefault(d, k) == IF k \in DOMAIN d THEN d ELSE d @@ (k :> EmptyDict)

\* the model after emit_p.get(obs, {}): get() inserts nothing
AfterGet(d, k) == d

\* lines 43-50
possible_states_t0(emit_p, start_obs, start_hint) ==
    LET ks == Keys(Get(emit_p, start_obs, EmptyDict))
    IN  IF ks = {}
        THEN IF start_hint # NO_HINT THEN {start_hint} ELSE {start_obs}
        ELSE ks

\* candidates that prefer the surface to the hint
possible_states_t_surface_first(emit_p, obs, hint) ==
    LET ks == Keys(Get(emit_p, obs, EmptyDict))
    IN  IF ks = {} THEN {obs} ELSE ks

\* candidates without the fallback to the hint or the surface
possible_states_t_keys_only(emit_p, obs, hint) ==
    Keys(Get(emit_p, obs, EmptyDict))

\* lines 68-74
possible_states_t(emit_p, obs, hint) ==
    LET ks == Keys(Get(emit_p, obs, EmptyDict))
    IN  IF ks = {}
        THEN IF hint # NO_HINT THEN {hint} ELSE {obs}
        ELSE ks

\* lines 54 and 77
emission_prob(emit_p, obs, y) == Get(Get(emit_p, obs, EmptyDict), y, FLOOR)

\* line 55
prior_prob(start_p, y) == Get(start_p, y, Get(start_p, DEFAULT, FLOOR))

\* line 82: the fallback is looked up in the table of contexts, not in the
\* context of y_prev
transition_prob(trans_p, y_prev, y) ==
    Get(Get(trans_p, y_prev, EmptyDict), y, Get(trans_p, DEFAULT, FLOOR))

\* lines 53-58: V[0]
InitialScores(m, start_obs, start_hint) ==
    [y \in possible_states_t0(m.emissions, start_obs, start_hint) |->
        Log(prior_prob(m.priors, y)) + Log(emission_prob(m.emissions, start_obs, y))]

\* lines 81-84: (max_prob, best_prev_state) for the candidate y
BestPrev(m, Vprev, obs, y) ==
    MaxTuple({<<Vprev[y_prev]
                 + Log(transition_prob(m.transitions, y_prev, y))
                 + Log(emission_prob(m.emissions, obs, y)), y_prev>> :
              y_prev \in Keys(Vprev)})

\* list.append(x)
InsertBack(seq, x) == seq \o <<x>>

\* seq[0] = x
ReplaceFront(seq, x) == IF seq = <<>> THEN <<x>> ELSE <<x>> \o Tail(seq)

\* list.insert(0, x)
InsertFront(seq, x) == <<x>> \o seq

T == Len(observations)

Call ==
    /\ pc = "input"
    /\ \E n \in 0..MaxT :
         \E obs \in [1..n -> Surfaces], hints \in [1..n -> Hints] :
            /\ observations' = obs
            /\ mecab_readings' = hints
    /\ pc' = "viterbi"
    /\ UNCHANGED <<model, loaded, t, V, path, best_path_sequence,
                   log_probs_sequence, current_state, result>>
    /\ UNCHANGED trainerVars

\* lines 25-27
ReturnEmpty ==
    /\ pc = "viterbi"
    /\ T = 0
    /\ result' = <<<<>>, <<>>>>
    /\ pc' = "return"
    /\ UNCHANGED <<model, loaded, observations, mecab_readings, t, V, path,
                   best_path_sequence, log_probs_sequence, current_state>>
    /\ UNCHANGED trainerVars

\* lines 29-58
Initialization ==
    /\ pc = "viterbi"
    /\ T # 0
    /\ LET start_obs == observations[1]
           start_hint == mecab_readings[1]
           V0 == InitialScores(model, start_obs, start_hint)
       IN  /\ V' = (0 :> V0)
           /\ path' = [lists |-> [y \in Keys(V0) |-> <<y>>], steps |-> EmptyDict]
           /\ model' = [model EXCEPT !.emissions = AfterGet(@, start_obs)]
    /\ best_path_sequence' = <<>>
    /\ log_probs_sequence' = <<>>
    /\ current_state' = ""
    /\ t' = 1
    /\ pc' = "recursion"
    /\ UNCHANGED <<loaded, observations, mecab_readings, result>>
    /\ UNCHANGED trainerVars

\* lines 61-91, one iteration of the loop over t
Recursion ==
    /\ pc = "recursion"
    /\ t < T
    /\ LET obs == observations[t + 1]
           hint == mecab_readings[t + 1]
           states == possible_states_t(model.emissions, obs, hint)
       IN  IF states # {} /\ Keys(V[t - 1]) = {}
           THEN \* max() of an empty sequence
                /\ pc' = "ValueError"
                /\ UNCHANGED <<V, path, t, model>>
           ELSE LET best == [y \in states |-> BestPrev(model, V[t - 1], obs, y)]
                IN  /\ V' = V @@ (t :> [y \in states |-> best[y][1]])
                    /\ path' = [path EXCEPT
                                  !.steps = @ @@ (t :> [y \in states |-> best[y][2]])]
                    /\ model' = [model EXCEPT !.emissions = AfterGet(@, obs)]
                    /\ t' = t + 1
                    /\ pc' = "recursion"
    /\ UNCHANGED <<loaded, observations, mecab_readings, best_path_sequence,
                   log_probs_sequence, current_state, result>>
    /\ UNCHANGED trainerVars

\* lines 93-106
Termination ==
    /\ pc = "recursion"
    /\ t >= T
    /\ IF Keys(V[T - 1]) = {}
       THEN /\ result' = <<[i \in 1..T |-> PLACEHOLDER], [i \in 1..T |-> NEG_INF]>>
            /\ pc' = "return"
            /\ UNCHANGED <<best_path_sequence, log_probs_sequence, current_state, t>>
       ELSE LET best == MaxTuple({<<V[T - 1][y], y>> : y \in Keys(V[T - 1])})
            IN  /\ best_path_sequence' = <<best[2]>>
                /\ log_probs_sequence' = <<best[1]>>
                /\ current_state' = best[2]
                /\ t' = T - 2
                /\ pc' = "backtrace"
                /\ UNCHANGED result
    /\ UNCHANGED <<model, loaded, observations, mecab_readings, V, path>>
    /\ UNCHANGED trainerVars

\* lines 107-111, one iteration of the backtrace loop
Backtrace ==
    /\ pc = "backtrace"
    /\ t >= 0
    /\ LET prev == path.steps[t + 1][current_state]
       IN  /\ current_state' = prev
           /\ best_path_sequence' = InsertFront(best_path_sequence, prev)
           /\ log_probs_sequence' = InsertFront(log_probs_sequence, V[t][prev])
    /\ t' = t - 1
    /\ UNCHANGED <<model, loaded, observations, mecab_readings, pc, V, path, result>>
    /\ UNCHANGED trainerVars

\* line 115
Return ==
    /\ pc = "backtrace"
    /\ t < 0
    /\ result' = <<best_path_sequence, log_probs_sequence>>
    /\ pc' = "return"
    /\ UNCHANGED <<model, loaded, observations, mecab_readings, t, V, path,
                   best_path_sequence, log_probs_sequence, current_state>>
    /\ UNCHANGED trainerVars

\* main, lines 163-178: the sentence is printed and the loop reads the next one
Render ==
    /\ pc = "return"
    /\ pc' = "input"
    /\ observations' = <<>>
    /\ mecab_readings' = <<>>
    /\ t' = 0
    /\ V' = EmptyDict
    /\ path' = [lists |-> EmptyDict, steps |-> EmptyDict]
    /\ best_path_sequence' = <<>>
    /\ log_probs_sequence' = <<>>
    /\ current_state' = ""
    /\ result' = <<<<>>, <<>>>>
    /\ UNCHANGED <<model, loaded>>
    /\ UNCHANGED trainerVars

\* the decoder process does not train
TrainerIdle ==
    /\ corpus = <<>>
    /\ tpc = "off"
    /\ sentence_idx = 0
    /\ pair_idx = 0
    /\ prev_reading = "None"
    /\ emission_counts = EmptyDict
    /\ transition_counts = EmptyDict
    /\ prior_counts = EmptyDict
    /\ reading_vocabulary = {}
    /\ priors = EmptyDict
    /\ transitions = EmptyDict
    /\ emissions = EmptyDict
    /\ model_file = "absent"

Init ==
    /\ model \in Models
    /\ loaded = model
    /\ observations = <<>>
    /\ mecab_readings = <<>>
    /\ pc = "input"
    /\ t = 0
    /\ V = EmptyDict
    /\ path = [lists |-> EmptyDict, steps |-> EmptyDict]
    /\ best_path_sequence = <<>>
    /\ log_probs_sequence = <<>>
    /\ current_state = ""
    /\ result = <<<<>>, <<>>>>
    /\ TrainerIdle

Next ==
    \/ Call
    \/ ReturnEmpty
    \/ Initialization
    \/ Recursion
    \/ Termination
    \/ Backtrace
    \/ Return
    \/ Render

Spec == Init /\ [][Next]_vars

\* ------------------------------------------------- properties of the decoder
Returned == pc = "return"

Decoded == Returned /\ T >= 1 /\ PLACEHOLDER \notin {result[1][i] : i \in 1..T}

\* the candidate readings of position i (1-based) as viterbi builds them
CandidatesAt(i) ==
    possible_states_t(model.emissions, observations[i], mecab_readings[i])

\* the sequences that pick one candidate reading per position 1..n
CandidatePaths(n) ==
    LET paths[i \in 0..n] ==
            IF i = 0
            THEN {<<>>}
            ELSE {Append(p, y) : p \in paths[i - 1], y \in CandidatesAt(i)}
    IN  paths[n]

\* transition(y_prev, y) of the design: the context's own __DEFAULT__ for a
\* reading the context has not seen, the floor when y_prev has no context
context_transition_prob(trans_p, y_prev, y) ==
    IF y_prev \in DOMAIN trans_p
    THEN Get(trans_p[y_prev], y, trans_p[y_prev][DEFAULT])
    ELSE FLOOR

\* log prior(y0) + log emission(obs0, y0)
\*   + sum over t > 0 of log transition(y[t-1], y[t]) + log emission(obs_t, y[t])
PathScore(Tr(_, _, _), p, n) ==
    LET f[i \in 1..n] ==
            IF i = 1
            THEN Log(prior_prob(model.priors, p[1]))
                   + Log(emission_prob(model.emissions, observations[1], p[1]))
            ELSE f[i - 1]
                   + Log(Tr(model.transitions, p[i - 1], p[i]))
                   + Log(emission_prob(model.emissions, observations[i], p[i]))
    IN  f[n]

IsMaximum(x, S) == x \in S /\ \A z \in S : z <= x

\* C1: the returned reading sequence is a maximum-likelihood path: the last
\* returned log-probability is the maximum of the path score over all
\* candidate sequences, with the transition of the design, and the returned
\* sequence attains it.
C1_MaximumLikelihood ==
    Decoded =>
        /\ result[1] \in CandidatePaths(T)
        /\ IsMaximum(PathScore(context_transition_prob, result[1], T),
                     {PathScore(context_transition_prob, p, T) : p \in CandidatePaths(T)})
        /\ result[2][T] = PathScore(context_transition_prob, result[1], T)

\* the same statement with the transition lookup of line 82: the dynamic
\* program is exact for the probabilities the code reads
MaximumForLookup ==
    Decoded =>
        /\ result[1] \in CandidatePaths(T)
        /\ IsMaximum(PathScore(transition_prob, result[1], T),
                     {PathScore(transition_prob, p, T) : p \in CandidatePaths(T)})
        /\ result[2][T] = PathScore(transition_prob, result[1], T)

\* C3: in the recurrence for t > 0, for a previous reading that has a
\* transition context and a candidate reading that is not a key of it, the
\* transition probability used is the context's own __DEFAULT__.
C3_ContextDefaultUsed ==
    (pc = "recursion" /\ t < T) =>
        \A y_prev \in Keys(V[t - 1]), y \in CandidatesAt(t + 1) :
            (y_prev \in DOMAIN model.transitions
               /\ y \notin DOMAIN model.transitions[y_prev]) =>
                transition_prob(model.transitions, y_prev, y)
                    = model.transitions[y_prev][DEFAULT]

\* the candidate set of position i as the design states it
StatedCandidates(i) ==
    IF observations[i] \in DOMAIN model.emissions
    THEN DOMAIN model.emissions[observations[i]]
    ELSE IF mecab_readings[i] # NO_HINT
         THEN {mecab_readings[i]}
         ELSE {observations[i]}

\* the candidate set of position i: an entry that is the empty mapping counts
\* as no entry
NonEmptyEntryCandidates(i) ==
    IF /\ observations[i] \in DOMAIN model.emissions
       /\ DOMAIN model.emissions[observations[i]] # {}
    THEN DOMAIN model.emissions[observations[i]]
    ELSE IF mecab_readings[i] # NO_HINT
         THEN {mecab_readings[i]}
         ELSE {observations[i]}

UnseenWithHintDecodedToHint ==
    Decoded =>
        \A i \in 1..T :
            (observations[i] \notin DOMAIN model.emissions
               /\ mecab_readings[i] # NO_HINT) =>
                result[1][i] = mecab_readings[i]

\* C4 as stated: at every timestep the candidate set is the keys of the
\* emission entry of the observation when the table has such an entry, else
\* the hint when there is one, else the observation.
C4_CandidatesAsStated ==
    /\ \A tt \in DOMAIN V : Keys(V[tt]) = StatedCandidates(tt + 1)
    /\ UnseenWithHintDecodedToHint

\* C4 amended: at every timestep the candidate set is the keys of the emission
\* entry of the observation when the table has a non-empty entry for it;
\* otherwise (no entry, or an entry that is the empty mapping) the hint when
\* there is one, else the observation.  An observation absent from the table
\* with a hint is decoded to that hint.
C4_Candidates ==
    /\ \A tt \in DOMAIN V : Keys(V[tt]) = NonEmptyEntryCandidates(tt + 1)
    /\ UnseenWithHintDecodedToHint

\* a decode in which one position took its two candidates from the table and
\* another, whose entry is the empty mapping, took the hint
C4_Witness ==
    /\ Decoded
    /\ \E i, j \in 1..T :
          /\ observations[i] \in DOMAIN model.emissions
          /\ Cardinality(Keys(V[i - 1])) = 2
          /\ observations[j] \in DOMAIN model.emissions
          /\ DOMAIN model.emissions[observations[j]] = {}
          /\ mecab_readings[j] # NO_HINT
          /\ Keys(V[j - 1]) = {mecab_readings[j]}
          /\ result[1][j] = mecab_readings[j]

\* C5: on every return of viterbi the reading sequence and the
\* log-probability sequence both have the length of the observations.
C5_Lengths ==
    Returned =>
        /\ Len(result[1]) = Len(observations)
        /\ Len(result[2]) = Len(observations)
        /\ Len(mecab_readings) = Len(observations)

\* a return of a sentence of at least two tokens
C5_Witness == Returned /\ T >= 2 /\ Len(result[1]) = T

\* the best score of a candidate sequence of positions 1..n that ends in y
PrefixBest(n, y) ==
    LET scores == {PathScore(transition_prob, p, n) :
                      p \in {q \in CandidatePaths(n) : q[n] = y}}
    IN  CHOOSE x \in scores : \A z \in scores : z <= x

\* C9: after a decode of T >= 1 tokens the returned log-probability of
\* position t is V[t][p_t], the forward best-path score of the returned
\* reading p_t at time t; the returned reading p_t is the backpointer stored for
\* p_(t+1); and the sequence is in left-to-right order, ending in the state
\* chosen at T-1.
C9_TraceOfBestPath ==
    Decoded =>
        /\ Len(result[1]) = T /\ Len(result[2]) = T
        /\ \A i \in 1..T :
              /\ result[1][i] \in Keys(V[i - 1])
              /\ result[2][i] = V[i - 1][result[1][i]]
              /\ result[2][i] = PrefixBest(i, result[1][i])
        /\ \A i \in 1..(T - 1) :
              /\ result[1][i + 1] \in Keys(path.steps[i])
              /\ path.steps[i][result[1][i + 1]] = result[1][i]
        /\ \A y \in Keys(V[T - 1]) : V[T - 1][y] <= result[2][T]

\* a decode of at least two tokens whose readings differ from one position to
\* the next, each position having two candidates
C9_Witness ==
    /\ Decoded
    /\ T >= 2
    /\ result[1][1] # result[1][2]
    /\ Cardinality(Keys(V[0])) = 2
    /\ Cardinality(Keys(V[1])) = 2

\* viterbi as a function of the model and the sentence
ForwardPass(m, obs, hints) ==
    LET n == Len(obs)
        step[i \in 0..(n - 1)] ==
            IF i = 0
            THEN [scores |-> InitialScores(m, obs[1], hints[1]), back |-> EmptyDict]
            ELSE LET states == possible_states_t(m.emissions, obs[i + 1], hints[i + 1])
                     best == [y \in states |->
                                 BestPrev(m, step[i - 1].scores, obs[i + 1], y)]
                 IN  [scores |-> [y \in states |-> best[y][1]],
                      back |-> [y \in states |-> best[y][2]]]
    IN  step

DecodeAlone(m, obs, hints) ==
    LET n == Len(obs)
        step == ForwardPass(m, obs, hints)
        last == MaxTuple({<<step[n - 1].scores[y], y>> : y \in Keys(step[n - 1].scores)})
        state[i \in 0..(n - 1)] ==
            IF i = n - 1 THEN last[2] ELSE step[i + 1].back[state[i + 1]]
    IN  IF n = 0
        THEN <<<<>>, <<>>>>
        ELSE <<[i \in 1..n |-> state[i - 1]],
               [i \in 1..n |-> step[i - 1].scores[state[i - 1]]]>>

\* C10: a call of viterbi leaves priors, transitions and emissions as they
\* were loaded, whatever lookups miss, so the result of every call of a
\* sequence of calls is the result of that call alone on the loaded model.
C10_ModelUnchanged ==
    /\ model = loaded
    /\ Returned => result = DecodeAlone(loaded, observations, mecab_readings)

\* a return after lookups that missed: a surface without emission entry, a
\* previous reading without transition context, a reading without prior
C10_Witness ==
    /\ Decoded
    /\ T >= 2
    /\ model = loaded
    /\ observations[1] \notin DOMAIN model.emissions
    /\ result[1][1] \notin DOMAIN model.transitions
    /\ result[1][1] \notin DOMAIN model.priors
    /\ result[1][2] \notin DOMAIN Get(model.transitions, result[1][1], EmptyDict)

\* C11: for every model, also one whose emission entry for a surface is the
\* empty mapping, and every sentence of T >= 1 tokens, the score table of
\* every timestep built so far is non-empty: max() is never taken over an
\* empty set of previous states and the placeholder return is never taken.
C11_ScoreTablesNonEmpty ==
    /\ \A tt \in DOMAIN V : Keys(V[tt]) # {}
    /\ pc # "ValueError"
    /\ (Returned /\ T >= 1) =>
          /\ DOMAIN V = 0..(T - 1)
          /\ \A i \in 1..Len(result[1]) : result[1][i] # PLACEHOLDER
          /\ result = <<best_path_sequence, log_probs_sequence>>

\* a decode of at least two tokens in which the entries of the first and of a
\* later surface are the empty mapping
C11_Witness ==
    /\ Decoded
    /\ T >= 2
    /\ \A i \in 1..T :
          /\ observations[i] \in DOMAIN model.emissions
          /\ DOMAIN model.emissions[observations[i]] = {}
    /\ \A tt \in 0..(T - 1) : Keys(V[tt]) # {}

\* the greatest string of a set of states
GreatestState(S) == CHOOSE s \in S : \A u \in S : StrRank(u) <= StrRank(s)

\* the scores line 82 compares for the candidate y of time tt
StepScore(tt, y_prev, y) ==
    V[tt - 1][y_prev]
      + Log(transition_prob(model.transitions, y_prev, y))
      + Log(emission_prob(model.emissions, observations[tt + 1], y))

\* the previous states that attain the maximum for the candidate y of time tt
BestPrevStates(tt, y) ==
    {y_prev \in Keys(V[tt - 1]) :
        \A z \in Keys(V[tt - 1]) : StepScore(tt, z, y) <= StepScore(tt, y_prev, y)}

\* the final states that attain the maximum score
BestLastStates ==
    {y \in Keys(V[T - 1]) : \A z \in Keys(V[T - 1]) : V[T - 1][z] <= V[T - 1][y]}

\* C12: a tie of scores is resolved by the order of the states: the
\* backpointer recorded for a candidate at time t, and the final state chosen
\* at T-1, is the greatest string among the states that attain the maximum.
C12_TiesToGreatestState ==
    /\ \A tt \in DOMAIN path.steps :
          \A y \in Keys(path.steps[tt]) :
              path.steps[tt][y] = GreatestState(BestPrevStates(tt, y))
    /\ Decoded => result[1][T] = GreatestState(BestLastStates)

\* a decode in which two previous states tie for a candidate and two final
\* states tie for the last position
C12_Witness ==
    /\ Decoded
    /\ T >= 2
    /\ Cardinality(BestLastStates) = 2
    /\ \E y \in Keys(path.steps[1]) : Cardinality(BestPrevStates(1, y)) = 2

\* ------------------------------------------------------------------ train.py
LAPLACE_SMOOTHING == 1

MaxSentences == 2
MaxSentenceLen == 2

\* aligned (surface, reading) pairs
Pairs == {<<"x", "a">>, <<"x", "b">>, <<"y", "b">>}

Sentences == UNION {[1..n -> Pairs] : n \in 0..MaxSentenceLen}

Corpora == UNION {[1..n -> Sentences] : n \in 0..MaxSentences}

\* sum(counts.values())
RECURSIVE SumValues(_)
SumValues(counts) ==
    IF DOMAIN counts = {}
    THEN 0
    ELSE LET k == CHOOSE k \in DOMAIN counts : TRUE
         IN  counts[k] + SumValues([j \in DOMAIN counts \ {k} |-> counts[j]])

\* Counter: counter[k] += 1, a missing key counts as 0
Increment(counter, k) ==
    IF k \in DOMAIN counter
    THEN [counter EXCEPT ![k] = @ + 1]
    ELSE counter @@ (k :> 1)

\* defaultdict(Counter): table[k1][k2] += 1
IncrementNested(table, k1, k2) ==
    IF k1 \in DOMAIN table
    THEN [table EXCEPT ![k1] = Increment(@, k2)]
    ELSE table @@ (k1 :> (k2 :> 1))

\* normalize that reserves one more count in the total
normalize_reserving(counts) ==
    LET total == SumValues(counts) + 1
    IN  [key \in DOMAIN counts |-> <<counts[key], total>>]

\* lines 12-26; a probability count / total is the fraction <<count, total>>
normalize(counts) ==
    LET total == SumValues(counts)
    IN  IF total = 0
        THEN EmptyDict
        ELSE [key \in DOMAIN counts |-> <<counts[key], total>>]

\* a denominator that takes the distribution's own keys for the vocabulary
SmoothingDenominatorOwnKeys(counts, vocabulary_size) ==
    SumValues(counts) + (LAPLACE_SMOOTHING * Cardinality(DOMAIN counts))

\* line 37
SmoothingDenominator(counts, vocabulary_size) ==
    SumValues(counts) + (LAPLACE_SMOOTHING * vocabulary_size)

\* lines 28-47, when no division raises; line 45 is the last assignment
normalize_with_smoothing(counts, vocabulary_size) ==
    LET denominator == SmoothingDenominator(counts, vocabulary_size)
    IN  [key \in DOMAIN counts \cup {DEFAULT} |->
            IF key = DEFAULT
            THEN <<LAPLACE_SMOOTHING, denominator>>
            ELSE <<counts[key] + LAPLACE_SMOOTHING, denominator>>]

\* a previous reading that survives the sentence boundary
SentenceStartPrevKept(prev) == prev

\* line 91
SentenceStartPrev(prev) == "None"

\* lines 83-85: an empty sentence is skipped
SkipSentence ==
    /\ tpc = "count"
    /\ sentence_idx <= Len(corpus)
    /\ corpus[sentence_idx] = <<>>
    /\ sentence_idx' = sentence_idx + 1
    /\ UNCHANGED <<corpus, tpc, pair_idx, prev_reading, emission_counts,
                   transition_counts, prior_counts, reading_vocabulary, priors,
                   transitions, emissions, model_file>>
    /\ UNCHANGED decoderVars

\* lines 87-91
BeginSentence ==
    /\ tpc = "count"
    /\ sentence_idx <= Len(corpus)
    /\ corpus[sentence_idx] # <<>>
    /\ LET first_word_reading == corpus[sentence_idx][1][2]
       IN  prior_counts' = Increment(prior_counts, first_word_reading)
    /\ prev_reading' = SentenceStartPrev(prev_reading)
    /\ pair_idx' = 1
    /\ tpc' = "pairs"
    /\ UNCHANGED <<corpus, sentence_idx, emission_counts, transition_counts,
                   reading_vocabulary, priors, transitions, emissions, model_file>>
    /\ UNCHANGED decoderVars

\* lines 93-103, one iteration of the loop over the pairs of the sentence
CountPair ==
    /\ tpc = "pairs"
    /\ pair_idx <= Len(corpus[sentence_idx])
    /\ LET kanji == corpus[sentence_idx][pair_idx][1]
           reading == corpus[sentence_idx][pair_idx][2]
       IN  /\ emission_counts' = IncrementNested(emission_counts, kanji, reading)
           /\ transition_counts' =
                 IF prev_reading # "None"
                 THEN IncrementNested(transition_counts, prev_reading, reading)
                 ELSE transition_counts
           /\ reading_vocabulary' = reading_vocabulary \cup {reading}
           /\ prev_reading' = reading
    /\ pair_idx' = pair_idx + 1
    /\ UNCHANGED <<corpus, tpc, sentence_idx, prior_counts, priors, transitions,
                   emissions, model_file>>
    /\ UNCHANGED decoderVars

\* the inner loop is exhausted: the outer loop takes the next sentence
EndSentence ==
    /\ tpc = "pairs"
    /\ pair_idx > Len(corpus[sentence_idx])
    /\ sentence_idx' = sentence_idx + 1
    /\ tpc' = "count"
    /\ UNCHANGED <<corpus, pair_idx, prev_reading, emission_counts, transition_counts,
                   prior_counts, reading_vocabulary, priors, transitions, emissions,
                   model_file>>
    /\ UNCHANGED decoderVars

vocabulary_size == Cardinality(reading_vocabulary)

\* lines 106-132
Normalize ==
    /\ tpc = "count"
    /\ sentence_idx > Len(corpus)
    /\ SmoothingDenominator(prior_counts, vocabulary_size) # 0
    /\ priors' = normalize_with_smoothing(prior_counts, vocabulary_size)
    /\ transitions' =
          [prev \in DOMAIN transition_counts |->
              normalize_with_smoothing(transition_counts[prev], vocabulary_size)]
    /\ emissions' = [kanji \in DOMAIN emission_counts |-> normalize(emission_counts[kanji])]
    /\ tpc' = "save"
    /\ UNCHANGED <<corpus, sentence_idx, pair_idx, prev_reading, emission_counts,
                   transition_counts, prior_counts, reading_vocabulary, model_file>>
    /\ UNCHANGED decoderVars

\* line 113 calling line 45: 1.0 / 0.0 raises, nothing catches it
NormalizeRaises ==
    /\ tpc = "count"
    /\ sentence_idx > Len(corpus)
    /\ SmoothingDenominator(prior_counts, vocabulary_size) = 0
    /\ tpc' = "ZeroDivisionError"
    /\ UNCHANGED <<corpus, sentence_idx, pair_idx, prev_reading, emission_counts,
                   transition_counts, prior_counts, reading_vocabulary, priors,
                   transitions, emissions, model_file>>
    /\ UNCHANGED decoderVars

\* lines 135-145
Save ==
    /\ tpc = "save"
    /\ model_file' = [priors |-> priors, transitions |-> transitions,
                      emissions |-> emissions]
    /\ tpc' = "done"
    /\ UNCHANGED <<corpus, sentence_idx, pair_idx, prev_reading, emission_counts,
                   transition_counts, prior_counts, reading_vocabulary, priors,
                   transitions, emissions>>
    /\ UNCHANGED decoderVars

\* the trainer process does not decode
DecoderIdle ==
    /\ model = [priors |-> EmptyDict, transitions |-> EmptyDict, emissions |-> EmptyDict]
    /\ loaded = model
    /\ observations = <<>>
    /\ mecab_readings = <<>>
    /\ pc = "off"
    /\ t = 0
    /\ V = EmptyDict
    /\ path = [lists |-> EmptyDict, steps |-> EmptyDict]
    /\ best_path_sequence = <<>>
    /\ log_probs_sequence = <<>>
    /\ current_state = ""
    /\ result = <<<<>>, <<>>>>

InitTrain ==
    /\ corpus \in Corpora
    /\ tpc = "count"
    /\ sentence_idx = 1
    /\ pair_idx = 0
    /\ prev_reading = "None"
    /\ emission_counts = EmptyDict
    /\ transition_counts = EmptyDict
    /\ prior_counts = EmptyDict
    /\ reading_vocabulary = {}
    /\ priors = EmptyDict
    /\ transitions = EmptyDict
    /\ emissions = EmptyDict
    /\ model_file = "absent"
    /\ DecoderIdle

NextTrain ==
    \/ SkipSentence
    \/ BeginSentence
    \/ CountPair
    \/ EndSentence
    \/ Normalize
    \/ NormalizeRaises
    \/ Save

SpecTrain == InitTrain /\ [][NextTrain]_vars

\* ------------------------------------------------- properties of the trainer
Positions == UNION {{<<s, i>> : i \in 1..Len(corpus[s])} : s \in 1..Len(corpus)}

ReadingAt(pos) == corpus[pos[1]][pos[2]][2]

SurfaceAt(pos) == corpus[pos[1]][pos[2]][1]

\* the pairs the counting pass has gone through
Counted(pos) ==
    \/ pos[1] < sentence_idx
    \/ pos[1] = sentence_idx /\ tpc = "pairs" /\ pos[2] < pair_idx

\* the sentences whose first reading has been counted
Begun(s) == s < sentence_idx \/ (s = sentence_idx /\ tpc = "pairs")

Trained == tpc \in {"save", "done"}

SmoothedDistributions == {priors} \cup {transitions[p] : p \in DOMAIN transitions}

ObservedKeys(dist) == DOMAIN dist \ {DEFAULT}

RECURSIVE NumeratorSum(_, _)
NumeratorSum(dist, keys) ==
    IF keys = {}
    THEN 0
    ELSE LET k == CHOOSE k \in keys : TRUE
         IN  dist[k][1] + NumeratorSum(dist, keys \ {k})

CommonDenominator(dist) == \A k, j \in DOMAIN dist : dist[k][2] = dist[j][2]

\* C2 as stated: in every trained prior or transition distribution the
\* probabilities of the observed keys plus the __DEFAULT__ probability sum to 1
\* (the numerators (c_i + 1) and the 1 of __DEFAULT__ add up to the
\* denominator N + V).
C2_ObservedPlusDefaultIsOne ==
    Trained =>
        \A dist \in SmoothedDistributions :
            /\ CommonDenominator(dist)
            /\ NumeratorSum(dist, DOMAIN dist) = dist[DEFAULT][2]

\* C2 amended: in every trained prior or transition distribution with K
\* observed keys, K <= V, every probability has the denominator N + V, and the
\* probabilities of the observed keys plus (V - K) times the __DEFAULT__
\* probability (one share for each reading of the vocabulary the distribution
\* has not seen) sum to 1.
C2_SmoothingConservation ==
    Trained =>
        \A dist \in SmoothedDistributions :
            LET K == Cardinality(ObservedKeys(dist))
            IN  /\ CommonDenominator(dist)
                /\ K <= vocabulary_size
                /\ dist[DEFAULT][1] = LAPLACE_SMOOTHING
                /\ NumeratorSum(dist, ObservedKeys(dist))
                     + (vocabulary_size - K) * dist[DEFAULT][1] = dist[DEFAULT][2]

\* a trained model with a transition context that has not seen every reading
C2_Witness ==
    /\ Trained
    /\ \E p \in DOMAIN transitions :
          Cardinality(ObservedKeys(transitions[p])) < vocabulary_size
    /\ Cardinality(ObservedKeys(priors)) = vocabulary_size

NoPairs == \A s \in 1..Len(corpus) : corpus[s] = <<>>

\* C6: training on a corpus without any pair ends in a reported failure: it
\* neither writes a model nor aborts on an unhandled arithmetic fault.
C6_EmptyCorpusReported ==
    NoPairs =>
        /\ tpc \notin {"ZeroDivisionError", "save", "done"}
        /\ model_file = "absent"

Occurrences(kanji, reading) ==
    Cardinality({pos \in Positions : SurfaceAt(pos) = kanji /\ ReadingAt(pos) = reading})

AdjacentCounted(a, b) ==
    Cardinality({pos \in Positions :
        /\ pos[2] < Len(corpus[pos[1]])
        /\ Counted(<<pos[1], pos[2] + 1>>)
        /\ ReadingAt(pos) = a
        /\ ReadingAt(<<pos[1], pos[2] + 1>>) = b})

FirstCounted(r) ==
    Cardinality({s \in 1..Len(corpus) :
        Begun(s) /\ corpus[s] # <<>> /\ corpus[s][1][2] = r})

AllReadings == {p[2] : p \in Pairs}

\* C8: at every point of the counting pass the transition counter of (a, b) is
\* the number of adjacent positions inside one sentence, gone through so far,
\* whose readings are a then b, and the prior counter of r is the number of
\* non-empty sentences begun so far whose first reading is r; nothing is
\* counted across a sentence boundary.
C8_CountsWithinSentences ==
    /\ \A a, b \in AllReadings :
          Get(Get(transition_counts, a, EmptyDict), b, 0) = AdjacentCounted(a, b)
    /\ \A r \in AllReadings : Get(prior_counts, r, 0) = FirstCounted(r)
    /\ DOMAIN transition_counts \subseteq AllReadings
    /\ DOMAIN prior_counts \subseteq AllReadings

\* the pass is over, two non-empty sentences follow each other, and the last
\* reading of the first and the first reading of the second are adjacent
\* nowhere inside a sentence
C8_Witness ==
    /\ tpc = "save"
    /\ Len(corpus) >= 2
    /\ Len(corpus[1]) >= 2
    /\ corpus[2] # <<>>
    /\ AdjacentCounted(corpus[1][Len(corpus[1])][2], corpus[2][1][2]) = 0

====
